---------------------------- MODULE Spec2Model ----------------------------
(***************************************************************************)
(* PolySort (src/polysort.c): the adaptive hybrid sort.  One call of       *)
(* adaptiveHybridSort(arr, n) is modelled as a sequence of steps: the      *)
(* dispatcher, the analysis engine, and the selected backend (insertion,   *)
(* merge, radix, quicksort).  Arrays are functions over 0 .. n-1, as in C. *)
(* malloc may return NULL at every call site; the number of NULL results   *)
(* in one call is capped by MaxFail.                                       *)
(***************************************************************************)
EXTENDS Integers, Sequences, FiniteSets, TLC

\* ------------------------------------------------------------------------
\* 1. Constants and strategy definitions (polysort.c lines 21-31)
\* ------------------------------------------------------------------------
INSERTION_SORT_THRESHOLD == 32
ANALYSIS_SAMPLE_SIZE == 100
\* NEARLY_SORTED_THRESHOLD 0.85, kept as the exact ratio 85 / 100
NEARLY_SORTED_NUM == 85
NEARLY_SORTED_DEN == 100
\* LOW_CARDINALITY_THRESHOLD 0.20, kept as the exact ratio 20 / 100
LOW_CARDINALITY_NUM == 20
LOW_CARDINALITY_DEN == 100

STRATEGY_MERGESORT == "STRATEGY_MERGESORT"
STRATEGY_RADIXSORT == "STRATEGY_RADIXSORT"
STRATEGY_QUICKSORT == "STRATEGY_QUICKSORT"
SortStrategy == {STRATEGY_MERGESORT, STRATEGY_RADIXSORT, STRATEGY_QUICKSORT}

\* the width of C's int: every int of the program is a 32-bit signed integer
INT_MAX == 2147483647
INT_MIN == (-INT_MAX) - 1

\* ------------------------------------------------------------------------
\* Bounds of the model
\* ------------------------------------------------------------------------
\* every sequence over SmallValues of length 0 .. MaxSmallLen is an input
MaxSmallLen == 3
\* the longer inputs start with 0 .. MaxDescents descending pairs
MaxDescents == 6
\* at most MaxFail calls of malloc return NULL during one sort call
MaxFail == 2

\* ------------------------------------------------------------------------
\* C integer arithmetic
\* ------------------------------------------------------------------------
Abs(x) == IF x < 0 THEN -x ELSE x

\* C's / truncates toward zero (TLA+'s \div rounds down)
CDiv(a, b) ==
    IF (a >= 0) = (b > 0) THEN Abs(a) \div Abs(b) ELSE -(Abs(a) \div Abs(b))

\* C's %: the remainder has the sign of the dividend
CMod(a, b) == a - b * CDiv(a, b)

\* a + b in 32-bit two's complement, for a, b in INT_MIN .. INT_MAX
WrapAdd(a, b) ==
    IF a > 0 /\ b > 0 /\ b > INT_MAX - a THEN (a + INT_MIN) + (b + INT_MIN)
    ELSE IF a < 0 /\ b < 0 /\ b < INT_MIN - a THEN (a - INT_MIN) + (b - INT_MIN)
    ELSE a + b

\* a - b in 32-bit two's complement
WrapSub(a, b) ==
    IF a >= 0 /\ b < 0 /\ a > INT_MAX + b THEN (a + INT_MIN) - (b - INT_MIN)
    ELSE IF a < 0 /\ b > 0 /\ a < INT_MIN + b THEN (a - INT_MIN) - (b + INT_MIN)
    ELSE a - b

\* does exp * 10 leave the range of int (signed overflow, undefined in C)?
MulTenOverflows(exp) == exp > INT_MAX \div 10 \/ exp < -(INT_MAX \div 10)

\* exp * 10 as a wrapping build computes it
WrapMulTen(exp) ==
    LET x2 == WrapAdd(exp, exp)
        x4 == WrapAdd(x2, x2)
        x8 == WrapAdd(x4, x4)
    IN  WrapAdd(x8, x2)

\* ------------------------------------------------------------------------
\* 6. Utility functions (polysort.c lines 289-297)
\* ------------------------------------------------------------------------
swap(a, i, j) == [a EXCEPT ![i] = a[j], ![j] = a[i]]

compareInts(a, b) == WrapSub(a, b)

\* ------------------------------------------------------------------------
\* Loops.  For(Body, s, lo, hi) is the state after
\*     for (i = lo; i <= hi; i++) s = Body(s, i);
\* The range is split in two to keep the evaluation shallow, and the first
\* half runs to its end (left = left evaluates it) before the second starts.
\* ------------------------------------------------------------------------
RECURSIVE For(_, _, _, _)
For(Body(_, _), s, lo, hi) ==
    IF lo > hi THEN s
    ELSE IF lo = hi THEN Body(s, lo)
    ELSE LET mid == (lo + hi) \div 2
             left == For(Body, s, lo, mid)
         IN  IF left = left THEN For(Body, left, mid + 1, hi) ELSE left

\* ------------------------------------------------------------------------
\* 5. Core sorting algorithms (polysort.c lines 160-273)
\* ------------------------------------------------------------------------
\* while (j >= left && arr[j] > key) { arr[j + 1] = arr[j]; j = j - 1; }
\* the loop runs at most i - left times; moving is false once it has exited
InsertShift(a, i, left, key) ==
    LET Body(s, t) ==
            IF s.moving /\ s.j >= left /\ s.a[s.j] > key
            THEN [a |-> [s.a EXCEPT ![s.j + 1] = s.a[s.j]], j |-> s.j - 1,
                  moving |-> TRUE]
            ELSE [s EXCEPT !.moving = FALSE]
    IN  For(Body, [a |-> a, j |-> i - 1, moving |-> TRUE], 1, i - left)

\* one iteration of the for loop of insertionSort
InsertOne(a, i, left) ==
    LET key == a[i]
        s == InsertShift(a, i, left, key)
    IN  [s.a EXCEPT ![s.j + 1] = key]

insertionSort(arr, left, right) ==
    LET Body(a, i) == InsertOne(a, i, left)
    IN  For(Body, arr, left + 1, right)

\* <<the array after partition, the returned pivot index>>
partition(arr, low, high) ==
    LET pivot == arr[high]
        Body(s, j) ==
            IF s.a[j] < pivot
            THEN [a |-> swap(s.a, s.i + 1, j), i |-> s.i + 1]
            ELSE s
        r == For(Body, [a |-> arr, i |-> low - 1], low, high - 1)
    IN  <<swap(r.a, r.i + 1, high), r.i + 1>>

\* one activation of quickSortRecursive(arr, low, high) up to its recursive
\* calls: <<the array, the calls it makes, in order>>
quickSortRecursive(arr, low, high) ==
    IF low < high
    THEN IF high - low + 1 < INSERTION_SORT_THRESHOLD
         THEN <<insertionSort(arr, low, high), << >> >>
         ELSE LET p == partition(arr, low, high)
              IN  <<p[1], << <<low, p[2] - 1>>, <<p[2] + 1, high>> >> >>
    ELSE <<arr, << >> >>

\* the three while loops of merge: each iteration writes arr[k], k = l .. r
MergeLoops(arr, L, R, n1, n2, l, r) ==
    LET Body(s, k) ==
            IF s.i < n1 /\ s.j < n2
            THEN IF L[s.i] <= R[s.j]
                 THEN [a |-> [s.a EXCEPT ![k] = L[s.i]], i |-> s.i + 1, j |-> s.j]
                 ELSE [a |-> [s.a EXCEPT ![k] = R[s.j]], i |-> s.i, j |-> s.j + 1]
            ELSE IF s.i < n1
            THEN [a |-> [s.a EXCEPT ![k] = L[s.i]], i |-> s.i + 1, j |-> s.j]
            ELSE [a |-> [s.a EXCEPT ![k] = R[s.j]], i |-> s.i, j |-> s.j + 1]
    IN  For(Body, [a |-> arr, i |-> 0, j |-> 0], l, r).a

\* merge writing arr[l] before it looks at the results of malloc
mergeWritesFirst(arr, l, m, r, okL, okR) ==
    LET n1 == m - l + 1
        n2 == r - m
        L == [i \in 0 .. n1 - 1 |-> arr[l + i]]
        R == [j \in 0 .. n2 - 1 |-> arr[m + 1 + j]]
    IN  IF ~okL \/ ~okR THEN [arr EXCEPT ![l] = arr[m + 1]]
        ELSE MergeLoops(arr, L, R, n1, n2, l, r)

\* merge(arr, l, m, r); okL, okR: did malloc return a buffer for L, for R
merge(arr, l, m, r, okL, okR) ==
    LET n1 == m - l + 1
        n2 == r - m
        L == [i \in 0 .. n1 - 1 |-> arr[l + i]]
        R == [j \in 0 .. n2 - 1 |-> arr[m + 1 + j]]
    IN  IF ~okL \/ ~okR THEN arr
        ELSE MergeLoops(arr, L, R, n1, n2, l, r)

\* merge returning on a failed allocation without freeing the other buffer
mergeHeapOpsLeak(okL, okR) ==
    (IF okL THEN << <<"malloc", "L">> >> ELSE << >>)
    \o (IF okR THEN << <<"malloc", "R">> >> ELSE << >>)
    \o (IF ~okL \/ ~okR THEN << >>
        ELSE << <<"free", "L">>, <<"free", "R">> >>)

\* the heap operations of merge, in program order
mergeHeapOps(okL, okR) ==
    (IF okL THEN << <<"malloc", "L">> >> ELSE << >>)
    \o (IF okR THEN << <<"malloc", "R">> >> ELSE << >>)
    \o (IF ~okL \/ ~okR
        THEN (IF okL THEN << <<"free", "L">> >> ELSE << >>)
             \o (IF okR THEN << <<"free", "R">> >> ELSE << >>)
        ELSE << <<"free", "L">>, <<"free", "R">> >>)

\* the calls of merge that mergeSort(arr, l, r) makes, in the order made
RECURSIVE mergeSort(_, _)
mergeSort(l, r) ==
    IF l < r
    THEN LET m == l + (r - l) \div 2
         IN  mergeSort(l, m) \o mergeSort(m + 1, r) \o << <<l, m, r>> >>
    ELSE << >>

getMax(arr, n) ==
    LET Body(max, i) == IF arr[i] > max THEN arr[i] ELSE max
    IN  For(Body, arr[0], 1, n - 1)

\* the index into count[10] that countingSortForRadix computes for a value
DigitIndex(x, exp) == CMod(CDiv(x, exp), 10)

\* does a pass index count[] out of bounds (undefined behaviour)?
IndexOutOfBounds(arr, n, exp) ==
    \E i \in 0 .. n - 1 : DigitIndex(arr[i], exp) < 0 \/ DigitIndex(arr[i], exp) > 9

\* count[] after the first loop, over the indexes inside count[10]
CountDigits(arr, n, exp) ==
    LET Body(count, i) ==
            LET d == DigitIndex(arr[i], exp)
            IN  IF d \in 0 .. 9 THEN [count EXCEPT ![d] = @ + 1] ELSE count
    IN  For(Body, [d \in 0 .. 9 |-> 0], 0, n - 1)

\* count[] after the second loop
CountPrefix(count) ==
    LET Body(c, i) == [c EXCEPT ![i] = @ + c[i - 1]]
    IN  For(Body, count, 1, 9)

\* output[] after the third loop, i = n - 1 down to 0; an element whose index
\* is outside count[10] is not placed in output[]
PlaceLoop(arr, n, exp, count, output) ==
    LET Body(s, t) ==
            LET i == n - 1 - t
                d == DigitIndex(arr[i], exp)
            IN  IF d \in 0 .. 9
                THEN [count |-> [s.count EXCEPT ![d] = @ - 1],
                      output |-> [s.output EXCEPT ![s.count[d] - 1] = arr[i]]]
                ELSE s
    IN  For(Body, [count |-> count, output |-> output], 0, n - 1).output

\* countingSortForRadix(arr, n, exp); ok: did malloc return a buffer;
\* uninit: the contents of the fresh buffer, read back only where no element
\* was placed.  The last loop copies output[] to arr[].
countingSortForRadix(arr, n, exp, ok, uninit) ==
    IF ~ok THEN arr
    ELSE PlaceLoop(arr, n, exp, CountPrefix(CountDigits(arr, n, exp)), uninit)

countingSortHeapOps(ok) ==
    IF ok THEN << <<"malloc", "output">>, <<"free", "output">> >> ELSE << >>

\* ------------------------------------------------------------------------
\* 4. Heuristic analysis engine (polysort.c lines 109-152)
\* ------------------------------------------------------------------------
\* a sample that is never capped
sampleSizeUncapped(n) == n

sampleSize(n) == IF n < ANALYSIS_SAMPLE_SIZE THEN n ELSE ANALYSIS_SAMPLE_SIZE

\* has_negative after the loop of heuristic 1, which runs i over 0 .. sample_size - 2
hasNegative(arr, sample_size) == \E i \in 0 .. sample_size - 2 : arr[i] < 0

\* ascending_pairs after the loop of heuristic 1
ascendingPairs(arr, sample_size) ==
    Cardinality({i \in 0 .. sample_size - 2 : arr[i] <= arr[i + 1]})

\* (double)ascending_pairs / (sample_size - 1) >= NEARLY_SORTED_THRESHOLD.
\* With sample_size - 1 = 0 the quotient is NaN and with sample_size - 1 < 0 it
\* is -0.0: the comparison is false.  Otherwise both sides are below 2^53 and
\* the nearest double of the quotient is compared with the nearest double of
\* 0.85, which agrees with the comparison of the exact ratios.
NearlySorted(ascending_pairs, sample_size) ==
    /\ sample_size - 1 > 0
    /\ ascending_pairs * NEARLY_SORTED_DEN >= NEARLY_SORTED_NUM * (sample_size - 1)

\* qsort(sample_copy, sample_size, sizeof(int), compareInts): a comparison sort
\* driven by the sign of compareInts
qsort(base, size) ==
    LET Shift(a, i, key) ==
            LET Body(s, t) ==
                    IF s.moving /\ s.j >= 0 /\ compareInts(s.a[s.j], key) > 0
                    THEN [a |-> [s.a EXCEPT ![s.j + 1] = s.a[s.j]], j |-> s.j - 1,
                          moving |-> TRUE]
                    ELSE [s EXCEPT !.moving = FALSE]
            IN  For(Body, [a |-> a, j |-> i - 1, moving |-> TRUE], 1, i)
        One(a, i) ==
            LET s == Shift(a, i, a[i]) IN [s.a EXCEPT ![s.j + 1] = a[i]]
    IN  For(One, base, 1, size - 1)

\* unique_count after the loop of heuristic 3
uniqueCount(arr, sample_size) ==
    LET sample_copy == qsort([i \in 0 .. sample_size - 1 |-> arr[i]], sample_size)
    IN  1 + Cardinality({i \in 1 .. sample_size - 1 :
                            sample_copy[i] # sample_copy[i - 1]})

\* (double)unique_count / sample_size <= LOW_CARDINALITY_THRESHOLD
LowCardinality(unique_count, sample_size) ==
    unique_count * LOW_CARDINALITY_DEN <= LOW_CARDINALITY_NUM * sample_size

\* does analyzeData reach the malloc of sample_copy?
analyzeAllocates(arr, n) ==
    LET sample_size == sampleSize(n)
    IN  /\ ~NearlySorted(ascendingPairs(arr, sample_size), sample_size)
        /\ hasNegative(arr, sample_size)

\* analyzeData with the sign check ahead of the sortedness check
analyzeDataSignFirst(arr, n, ok) ==
    LET sample_size == sampleSize(n)
    IN  IF ~hasNegative(arr, sample_size) THEN STRATEGY_RADIXSORT
        ELSE IF NearlySorted(ascendingPairs(arr, sample_size), sample_size)
        THEN STRATEGY_MERGESORT
        ELSE STRATEGY_QUICKSORT

\* analyzeData(arr, n); ok: did malloc return a buffer for sample_copy
analyzeData(arr, n, ok) ==
    LET sample_size == sampleSize(n)
    IN  IF NearlySorted(ascendingPairs(arr, sample_size), sample_size)
        THEN STRATEGY_MERGESORT
        ELSE IF ~hasNegative(arr, sample_size) THEN STRATEGY_RADIXSORT
        ELSE IF ~ok THEN STRATEGY_QUICKSORT
        ELSE IF LowCardinality(uniqueCount(arr, sample_size), sample_size)
        THEN STRATEGY_QUICKSORT
        ELSE STRATEGY_QUICKSORT

analyzeHeapOps(arr, n, ok) ==
    IF analyzeAllocates(arr, n) /\ ok
    THEN << <<"malloc", "sample_copy">>, <<"free", "sample_copy">> >>
    ELSE << >>

\* ------------------------------------------------------------------------
\* The heap: the number of live buffers, and whether a free was ever given
\* a pointer that is not a live buffer
\* ------------------------------------------------------------------------
RECURSIVE HeapRun(_, _, _)
HeapRun(h, own, ops) ==
    IF ops = << >> THEN [live |-> h.live + Cardinality(own), fault |-> h.fault]
    ELSE LET op == Head(ops)
         IN  IF op[1] = "malloc"
             THEN HeapRun(h, own \cup {op[2]}, Tail(ops))
             ELSE HeapRun([h EXCEPT !.fault = @ \/ op[2] \notin own],
                          own \ {op[2]}, Tail(ops))

\* the heap after one function ran its heap operations
HeapAfter(h, ops) == HeapRun(h, {}, ops)

\* ------------------------------------------------------------------------
\* 7. The inputs main hands to adaptiveHybridSort
\* ------------------------------------------------------------------------
SmallValues == {-10, -1, 0, 3, 5}

\* d descending pairs at the front, ascending after them
Prefix(d, i) == IF i <= d THEN d - i ELSE i

\* two values alternating
Zig(z, i) == IF i % 2 = 0 THEN z[1] ELSE z[2]

ZigPairs == {<<5, 0>>, <<5, 5>>, <<2000000000, 1500000000>>}

\* the lengths around the two thresholds, and 41: 34 ascending pairs of 40 are
\* exactly 85%
BigLens == {INSERTION_SORT_THRESHOLD - 1, INSERTION_SORT_THRESHOLD, 41,
            ANALYSIS_SAMPLE_SIZE, ANALYSIS_SAMPLE_SIZE + 1}

BaseArrays(len) ==
    {[i \in 0 .. len - 1 |-> Zig(z, i)] : z \in ZigPairs}
    \cup (IF len < ANALYSIS_SAMPLE_SIZE
          THEN {[i \in 0 .. len - 1 |-> Prefix(d, i)] : d \in 0 .. MaxDescents}
          ELSE {})

\* the first element, the last one the sign check reads, the last one of the
\* sample, and the last one of the array
EditPos(len) == {0, sampleSize(len) - 2, sampleSize(len) - 1, len - 1}

EditVals == {-10, -1}

Edited(a, len) == {a} \cup {[a EXCEPT ![p] = v] : p \in EditPos(len), v \in EditVals}

Inputs ==
    UNION {[0 .. len - 1 -> SmallValues] : len \in 0 .. MaxSmallLen}
    \cup UNION {UNION {Edited(a, len) : a \in BaseArrays(len)} : len \in BigLens}

Len0(a) == Cardinality(DOMAIN a)

\* what a fresh malloc buffer may hold where the program reads it unwritten
Indeterminate == {-1, 0}


\* ------------------------------------------------------------------------
\* State
\* ------------------------------------------------------------------------
VARIABLES
    pc,             \* where the call is: idle, entry, merge, radix, radix_loop,
                    \* quick, done (returned to the caller), crashed
    arr,            \* the caller's array
    n,              \* its length
    input,          \* the array as the caller passed it
    strategy,       \* what analyzeData returned, "none" before
    analysisCalls,  \* how often the call consulted analyzeData
    backendCalls,   \* the backends adaptiveHybridSort invoked, in order
    mk,             \* how many of mergeSort's calls of merge are done
    qstack,         \* the calls of quickSortRecursive still to run
    m,              \* radixSort's m
    exp,            \* radixSort's exp
    passes,         \* how many times radixSort called countingSortForRadix
    failures,       \* how many calls of malloc returned NULL
    failedIn,       \* the functions in which a malloc returned NULL
    heap,           \* [live: the number of live buffers, fault: a bad free]
    ub,             \* the undefined behaviour the call ran into
    result,         \* what the call returned to its caller
    first           \* the first analysis of a pair (SpecAnalyze)

vars == <<pc, arr, n, input, strategy, analysisCalls, backendCalls, mk, qstack, m, exp,
          passes, failures, failedIn, heap, ub, result, first>>

NoArray == [i \in {} |-> 0]
NoAnalysis == [sample |-> NoArray, n |-> 0, ok |-> TRUE, strategy |-> "none"]

Init ==
    /\ pc = "idle"
    /\ arr = NoArray
    /\ n = 0
    /\ input = NoArray
    /\ strategy = "none"
    /\ analysisCalls = 0
    /\ backendCalls = << >>
    /\ mk = 0
    /\ qstack = << >>
    /\ m = 0
    /\ exp = 0
    /\ passes = 0
    /\ failures = 0
    /\ failedIn = {}
    /\ heap = [live |-> 0, fault |-> FALSE]
    /\ ub = {}
    /\ result = "none"
    /\ first = NoAnalysis

\* the results malloc may give at one call site: NULL only while fewer than
\* MaxFail calls have failed
MallocMay(ok, failedBefore) == ok \/ failedBefore < MaxFail

Failed(ok) == IF ok THEN 0 ELSE 1

\* ------------------------------------------------------------------------
\* 7. main calls adaptiveHybridSort(arr, n)
\* ------------------------------------------------------------------------
Call ==
    /\ pc = "idle"
    /\ \E a \in Inputs :
        /\ arr' = a
        /\ input' = a
        /\ n' = Len0(a)
    /\ pc' = "entry"
    /\ UNCHANGED <<strategy, analysisCalls, backendCalls, mk, qstack, m, exp, passes,
                   failures, failedIn, heap, ub, result, first>>

\* ------------------------------------------------------------------------
\* 3. adaptiveHybridSort (polysort.c lines 65-96)
\* ------------------------------------------------------------------------
AlreadySorted(len) == len <= 1

\* the size test with <= for <
SmallArrayInclusive(len) == len <= INSERTION_SORT_THRESHOLD

SmallArray(len) == len < INSERTION_SORT_THRESHOLD

\* the switch on the strategy: the backend invoked, as the next position
BackendOf(s) ==
    CASE s = STRATEGY_MERGESORT -> "merge"
      [] s = STRATEGY_RADIXSORT -> "radix"
      [] OTHER -> "quick"

\* n <= 1: return
ReturnUnsorted ==
    /\ pc = "entry"
    /\ AlreadySorted(n)
    /\ pc' = "done"
    /\ result' = "void"
    /\ UNCHANGED <<arr, n, input, strategy, analysisCalls, backendCalls, mk, qstack, m,
                   exp, passes, failures, failedIn, heap, ub, first>>

\* n < INSERTION_SORT_THRESHOLD: insertionSort(arr, 0, n - 1); return
SortSmall ==
    /\ pc = "entry"
    /\ ~AlreadySorted(n)
    /\ SmallArray(n)
    /\ arr' = insertionSort(arr, 0, n - 1)
    /\ backendCalls' = Append(backendCalls, "insertion")
    /\ pc' = "done"
    /\ result' = "void"
    /\ UNCHANGED <<n, input, strategy, analysisCalls, mk, qstack, m, exp, passes,
                   failures, failedIn, heap, ub, first>>

\* strategy = analyzeData(arr, n), then the switch enters the backend
Analyze ==
    /\ pc = "entry"
    /\ ~AlreadySorted(n)
    /\ ~SmallArray(n)
    /\ \E ok \in BOOLEAN :
        /\ MallocMay(ok, failures)
        /\ ok \/ analyzeAllocates(arr, n)
        /\ strategy' = analyzeData(arr, n, ok)
        /\ heap' = HeapAfter(heap, analyzeHeapOps(arr, n, ok))
        /\ failures' = failures + Failed(ok)
        /\ failedIn' = IF ok THEN failedIn ELSE failedIn \cup {"analyzeData"}
    /\ analysisCalls' = analysisCalls + 1
    /\ backendCalls' = Append(backendCalls, BackendOf(strategy'))
    /\ pc' = BackendOf(strategy')
    /\ qstack' = IF BackendOf(strategy') = "quick" THEN << <<0, n - 1>> >> ELSE << >>
    /\ UNCHANGED <<arr, n, input, mk, m, exp, passes, ub, result, first>>

\* ------------------------------------------------------------------------
\* mergeSort(arr, 0, n - 1): one step per call of merge
\* ------------------------------------------------------------------------
MergeStep ==
    /\ pc = "merge"
    /\ LET calls == mergeSort(0, n - 1)
           c == calls[mk + 1]
       IN  /\ \E okL, okR \in BOOLEAN :
                /\ MallocMay(okL, failures)
                /\ MallocMay(okR, failures + Failed(okL))
                /\ arr' = merge(arr, c[1], c[2], c[3], okL, okR)
                /\ heap' = HeapAfter(heap, mergeHeapOps(okL, okR))
                /\ failures' = failures + Failed(okL) + Failed(okR)
                /\ failedIn' = IF okL /\ okR THEN failedIn
                               ELSE failedIn \cup {"merge"}
           /\ mk' = mk + 1
           /\ pc' = IF mk + 1 = Len(calls) THEN "done" ELSE "merge"
           /\ result' = IF mk + 1 = Len(calls) THEN "void" ELSE result
    /\ UNCHANGED <<n, input, strategy, analysisCalls, backendCalls, qstack, m,
                   exp, passes, ub, first>>

\* ------------------------------------------------------------------------
\* quickSort(arr, 0, n - 1): one step per activation of quickSortRecursive;
\* qstack holds the calls still to run, the next one first
\* ------------------------------------------------------------------------
QuickStep ==
    /\ pc = "quick"
    /\ LET c == Head(qstack)
           r == quickSortRecursive(arr, c[1], c[2])
           rest == r[2] \o Tail(qstack)
       IN  /\ arr' = r[1]
           /\ qstack' = rest
           /\ pc' = IF rest = << >> THEN "done" ELSE "quick"
           /\ result' = IF rest = << >> THEN "void" ELSE result
    /\ UNCHANGED <<n, input, strategy, analysisCalls, backendCalls, mk, m, exp,
                   passes, failures, failedIn, heap, ub, first>>

\* ------------------------------------------------------------------------
\* radixSort(arr, n)
\* ------------------------------------------------------------------------
\* int m = getMax(arr, n); exp = 1
RadixStart ==
    /\ pc = "radix"
    /\ m' = getMax(arr, n)
    /\ exp' = 1
    /\ pc' = "radix_loop"
    /\ UNCHANGED <<arr, n, input, strategy, analysisCalls, backendCalls, mk, qstack,
                   passes, failures, failedIn, heap, ub, result, first>>

\* the elements whose index falls outside count[10]: output[] keeps as many
\* unwritten slots, the last ones
Unplaced(a, len, e) ==
    Cardinality({i \in 0 .. len - 1 :
        DigitIndex(a[i], e) < 0 \/ DigitIndex(a[i], e) > 9})

\* the fresh buffers malloc may return: the slots read back unwritten hold
\* any of the Indeterminate values
FreshBuffers(len, unplaced) ==
    {[i \in 0 .. len - 1 |-> IF i >= len - unplaced THEN g[i] ELSE 0] :
        g \in [len - unplaced .. len - 1 -> Indeterminate]}

\* one iteration of the loop: countingSortForRadix(arr, n, exp); exp *= 10.
\* An index outside count[10] and the overflow of exp * 10 are undefined
\* behaviour: the process faults, or it goes on with the indeterminate slots
\* of output[] and with the wrapped product.
RadixPass ==
    /\ pc = "radix_loop"
    /\ CDiv(m, exp) > 0
    /\ \E ok \in BOOLEAN, faults \in BOOLEAN :
        LET outside == ok /\ IndexOutOfBounds(arr, n, exp)
            overflow == MulTenOverflows(exp)
            now == (IF outside THEN {"index"} ELSE {})
                   \cup (IF overflow THEN {"overflow"} ELSE {})
        IN  /\ MallocMay(ok, failures)
            /\ faults => now # {}
            /\ ub' = ub \cup now
            /\ failures' = failures + Failed(ok)
            /\ failedIn' = IF ok THEN failedIn
                           ELSE failedIn \cup {"countingSortForRadix"}
            /\ IF faults
               THEN /\ pc' = "crashed"
                    /\ UNCHANGED <<arr, exp, passes, heap>>
               ELSE /\ \E uninit \in FreshBuffers(n, IF ok THEN Unplaced(arr, n, exp) ELSE 0) :
                        arr' = countingSortForRadix(arr, n, exp, ok, uninit)
                    /\ heap' = HeapAfter(heap, countingSortHeapOps(ok))
                    /\ exp' = IF overflow THEN WrapMulTen(exp) ELSE exp * 10
                    /\ passes' = passes + 1
                    /\ pc' = "radix_loop"
    /\ UNCHANGED <<n, input, strategy, analysisCalls, backendCalls, mk, qstack, m,
                   result, first>>

\* m / exp > 0 is false: radixSort returns
RadixReturn ==
    /\ pc = "radix_loop"
    /\ ~(CDiv(m, exp) > 0)
    /\ pc' = "done"
    /\ result' = "void"
    /\ UNCHANGED <<arr, n, input, strategy, analysisCalls, backendCalls, mk, qstack, m,
                   exp, passes, failures, failedIn, heap, ub, first>>

\* ------------------------------------------------------------------------
\* main goes on to its next array: nothing of the call is kept
\* ------------------------------------------------------------------------
Return ==
    /\ pc = "done"
    /\ pc' = "idle"
    /\ arr' = NoArray
    /\ n' = 0
    /\ input' = NoArray
    /\ strategy' = "none"
    /\ analysisCalls' = 0
    /\ backendCalls' = << >>
    /\ mk' = 0
    /\ qstack' = << >>
    /\ m' = 0
    /\ exp' = 0
    /\ passes' = 0
    /\ failures' = 0
    /\ failedIn' = {}
    /\ heap' = [live |-> 0, fault |-> FALSE]
    /\ ub' = {}
    /\ result' = "none"
    /\ UNCHANGED first

Next ==
    \/ Call
    \/ ReturnUnsorted
    \/ SortSmall
    \/ Analyze
    \/ MergeStep
    \/ QuickStep
    \/ RadixStart
    \/ RadixPass
    \/ RadixReturn
    \/ Return

Spec == Init /\ [][Next]_vars


\* ------------------------------------------------------------------------
\* analyzeData as a function of its arguments: two calls on arrays whose
\* samples have the same contents.  The calls are those adaptiveHybridSort
\* makes (n >= INSERTION_SORT_THRESHOLD); malloc may fail in either.
\* ------------------------------------------------------------------------
\* the Sample of the spec: the first min(n, 100) elements
SampleOf(a) ==
    LET len == IF Len0(a) < 100 THEN Len0(a) ELSE 100
    IN  [i \in 0 .. len - 1 |-> a[i]]

AnalysisInputs == {a \in Inputs : ~SmallArray(Len0(a))}

AnalyzeFirst ==
    /\ first = NoAnalysis
    /\ \E a \in AnalysisInputs, ok \in BOOLEAN :
        /\ ok \/ analyzeAllocates(a, Len0(a))
        /\ first' = [sample |-> SampleOf(a), n |-> Len0(a), ok |-> ok,
                     strategy |-> analyzeData(a, Len0(a), ok)]
    /\ UNCHANGED <<pc, arr, n, input, strategy, analysisCalls, backendCalls, mk,
                   qstack, m, exp, passes, failures, failedIn, heap, ub, result>>

AnalyzeSecond ==
    /\ first # NoAnalysis
    /\ strategy = "none"
    /\ \E a \in AnalysisInputs, ok \in BOOLEAN :
        /\ SampleOf(a) = first.sample
        /\ ok \/ analyzeAllocates(a, Len0(a))
        /\ arr' = a
        /\ input' = a
        /\ n' = Len0(a)
        /\ strategy' = analyzeData(a, Len0(a), ok)
        /\ failures' = Failed(ok)
        /\ heap' = HeapAfter(heap, analyzeHeapOps(a, Len0(a), ok))
    /\ analysisCalls' = analysisCalls + 1
    /\ UNCHANGED <<pc, backendCalls, mk, qstack, m, exp, passes, failedIn, ub,
                   result, first>>

Forget ==
    /\ strategy # "none"
    /\ arr' = NoArray
    /\ input' = NoArray
    /\ n' = 0
    /\ strategy' = "none"
    /\ failures' = 0
    /\ analysisCalls' = 0
    /\ first' = NoAnalysis
    /\ UNCHANGED <<pc, backendCalls, mk, qstack, m, exp, passes, failedIn, heap,
                   ub, result>>

NextAnalyze ==
    \/ AnalyzeFirst
    \/ AnalyzeSecond
    \/ Forget

SpecAnalyze == Init /\ [][NextAnalyze]_vars

\* ------------------------------------------------------------------------
\* The vocabulary of the claims
\* ------------------------------------------------------------------------
Sorted(a, len) == \A i \in 0 .. len - 2 : a[i] <= a[i + 1]

Occurrences(a, v) == Cardinality({i \in DOMAIN a : a[i] = v})

IsPermutation(a, b) ==
    /\ DOMAIN a = DOMAIN b
    /\ \A v \in {a[i] : i \in DOMAIN a} \cup {b[i] : i \in DOMAIN b} :
        Occurrences(a, v) = Occurrences(b, v)

NonNegative(a) == \A i \in DOMAIN a : a[i] >= 0

Returned == pc = "done"

\* the number of decimal digits of a positive int
DecimalDigits(x) ==
    IF x < 10 THEN 1 ELSE IF x < 100 THEN 2 ELSE IF x < 1000 THEN 3
    ELSE IF x < 10000 THEN 4 ELSE IF x < 100000 THEN 5
    ELSE IF x < 1000000 THEN 6 ELSE IF x < 10000000 THEN 7
    ELSE IF x < 100000000 THEN 8 ELSE IF x < 1000000000 THEN 9 ELSE 10

\* C1: after adaptiveHybridSort returns, with no allocation failure, every
\* adjacent pair of the array is in order, whichever backend ran.  (Stated
\* for the calls free of undefined behaviour; the code breaks it there.)
C1_Order == (Returned /\ failures = 0 /\ ub = {}) => Sorted(arr, n)

\* C2: after adaptiveHybridSort returns, with no allocation failure, the array
\* is a permutation of the array passed in.
C2_Permutation == (Returned /\ failures = 0) => IsPermutation(arr, input)

\* C3: whenever analyzeData returned STRATEGY_RADIXSORT, no element of the
\* sample arr[0 .. min(n, 100) - 1] is negative, the last one included.
C3_RadixSampleNonNegative ==
    strategy = STRATEGY_RADIXSORT => NonNegative(SampleOf(input))

\* C4: once the dispatcher has acted, analyzeData was consulted iff n >= 32;
\* for 1 < n < 32 only insertionSort ran, over the full range; for n <= 1
\* nothing ran and the array is unchanged; never more than one backend.
C4_SizeRouting ==
    /\ analysisCalls <= 1
    /\ Len(backendCalls) <= 1
    /\ pc \notin {"idle", "entry"} =>
        /\ (analysisCalls = 1) <=> (n >= 32)
        /\ (1 < n /\ n < 32) =>
            /\ backendCalls = <<"insertion">>
            /\ strategy = "none"
            /\ Sorted(arr, n)
            /\ IsPermutation(arr, input)
        /\ n <= 1 => (backendCalls = << >> /\ strategy = "none" /\ arr = input)
        /\ n >= 32 => (Len(backendCalls) = 1 /\ backendCalls[1] # "insertion")

C4_Witness == Returned /\ n = 31 /\ backendCalls = <<"insertion">> /\ arr # input

\* C5: when at least 85% of the adjacent pairs of a sample of length >= 2 are
\* ascending, analyzeData returns STRATEGY_MERGESORT, whatever the signs and
\* however few distinct values.
C5_SortednessFirst ==
    LET sample == SampleOf(input)
        len == Len0(sample)
        ascending == Cardinality({i \in 0 .. len - 2 : sample[i] <= sample[i + 1]})
    IN  (strategy # "none" /\ len >= 2 /\ ascending * 100 >= 85 * (len - 1))
            => strategy = STRATEGY_MERGESORT

\* a nearly sorted sample with a negative value and two distinct values
C5_Witness ==
    /\ strategy = STRATEGY_MERGESORT
    /\ \E i \in DOMAIN SampleOf(input) : input[i] < 0
    /\ Cardinality({input[i] : i \in DOMAIN SampleOf(input)}) = 2
    /\ ~Sorted(input, n)

\* C6: two calls of analyzeData on arrays with the same sample return the
\* same strategy, whatever the lengths, the elements after the sample and the
\* results of malloc.
C6_StrategyDeterminism ==
    (first # NoAnalysis /\ strategy # "none" /\ SampleOf(arr) = first.sample)
        => strategy = first.strategy

\* the same sample in arrays of different lengths, malloc failing in one call
C6_Witness ==
    /\ first # NoAnalysis
    /\ strategy # "none"
    /\ first.n # n
    /\ first.ok
    /\ failures = 1

\* C7: whenever merge, countingSortForRadix or analyzeData has returned, for
\* any results of malloc, every buffer it allocated has been freed, once.
C7_BuffersReleased == heap = [live |-> 0, fault |-> FALSE]

\* a call that went through failing allocations in merge
C7_Witness == Returned /\ "merge" \in failedIn /\ failures = 1

\* C8: a call in which an allocation of the merge or radix backend failed
\* ends with an outcome that tells the caller the sort failed.
C8_FailureReported ==
    (Returned /\ failedIn \cap {"merge", "countingSortForRadix"} # {})
        => result = "failed"

\* C9: on non-negative input radixSort returns after exactly as many passes as
\* its maximum has decimal digits, and exp * 10 never overflows.  (Stated
\* for the calls in which no allocation fails; the code breaks it there.)
C9_PassCount ==
    (/\ pc \in {"done", "crashed"}
     /\ backendCalls = <<"radix">>
     /\ NonNegative(input)
     /\ failures = 0)
        => (Returned /\ passes = DecimalDigits(m) /\ "overflow" \notin ub)

\* C10: whatever allocations fail in mergeSort, or in radixSort on non-negative
\* input, the array stays a permutation of the input, up to the return.
C10_FailureKeepsValues ==
    (\/ backendCalls = <<"merge">>
     \/ backendCalls = <<"radix">> /\ NonNegative(input))
        => (pc # "crashed" => IsPermutation(arr, input))

\* a merge sort that returned unordered after a failed allocation
C10_Witness ==
    /\ Returned
    /\ backendCalls = <<"merge">>
    /\ failures > 0
    /\ ~Sorted(arr, n)

=============================================================================
